---- MODULE Spec2Model ----
(***************************************************************************)
(* Convention Sales Dashboard (src/dashboard.py).                          *)
(*                                                                         *)
(* One Streamlit process serving one browser session.  Every UI event      *)
(* re-executes main() from top to bottom: load_data() (behind              *)
(* st.cache_data), the six sidebar selectboxes, the filter chain, the      *)
(* empty check, the metric/chart functions and the two exports.  An        *)
(* action of this module is one such script run.                           *)
(***************************************************************************)
EXTENDS Integers, Sequences, FiniteSets, TLC

(* ------------------------------------------------------------------ *)
(* Bounds of the model                                                  *)
(* ------------------------------------------------------------------ *)
\* longest CSV file (data rows) the model enumerates
MaxRows == 2
\* the random draws of np.random.randint are taken from seeds 0..MaxSeed
MaxSeed == 1
\* the count of load_data body executions saturates here
MaxLoads == 2

(* ------------------------------------------------------------------ *)
(* Values                                                               *)
(* ------------------------------------------------------------------ *)
\* float('nan'), the missing value of pandas
NaN == "<NaN>"
\* the first entry of every selectbox
All == "All"
Range(s) == {s[i] : i \in DOMAIN s}

\* the element of a one-element set: Only({e(x) : x \in {v}}) evaluates v once
Only(S) == CHOOSE x \in S : TRUE

\* the column names, in the order of the dict at lines 53-62
Columns ==
  <<"sheet_name", "location", "day", "event_type", "series_character",
    "character_variant", "product_type", "quantity">>

Row(sheet, loc, d, ev, ser, chr, prod, q) ==
  [sheet_name |-> sheet, location |-> loc, day |-> d, event_type |-> ev,
   series_character |-> ser, character_variant |-> chr, product_type |-> prod,
   quantity |-> q]

\* Python's order on the strings that occur (code point order), for sorted()
Lexicon ==
  <<"ACNH", "AL", "Bag", "Blathers", "Fish", "Frieren", "JJK", "Keyring",
    "London", "Mega", "Paris", "Pin", "Saturday", "Sunday">>

(* ------------------------------------------------------------------ *)
(* The input file                                                       *)
(* ------------------------------------------------------------------ *)
\* The lines a cleaned_convention_sales_data.csv may hold, as raw cells: "" is
\* an empty cell.  Nothing in the program restricts what the file contains.
FileRows ==
  { Row("MEGA LDN SAT", "London", "Saturday", "Mega", "JJK", "Fish", "Bag", 2),
    Row("MEGA LDN SUN", "London", "Sunday", "Mega", "JJK", "", "Pin", 0),
    Row("AL PAR SAT", "Paris", "Saturday", "AL", "ACNH", "Blathers", "Pin", 3),
    Row("AL PAR SUN", "Paris", "Sunday", "AL", "", "Fish", "Bag", -1),
    Row("MEGA SAT", "", "Saturday", "Mega", "JJK", "Fish", "Bag", 1),
    Row("AL LDN SAT", "London", "Saturday", "AL", "ACNH", "Fish", "", 2),
    Row("AL SUN", "", "Sunday", "AL", "", "", "", 4),
    Row("MEGA LDN", "London", "", "", "JJK", "Blathers", "Bag", 5) }

SeqsUpTo(S, n) == UNION {[1..k -> S] : k \in 0..n}

\* The working directory: the file is absent, or present with up to MaxRows lines
\* under its header.
Files ==
  {[exists |-> FALSE, lines |-> <<>>]}
    \cup {[exists |-> TRUE, lines |-> s] : s \in SeqsUpTo(FileRows, MaxRows)}

\* the cells pd.read_csv reads as missing (its default na_values, those in use)
NaTokens == {"", "nan"}

\* pd.read_csv('cleaned_convention_sales_data.csv')
ReadCsv(lines) ==
  [columns |-> Columns,
   rows |-> [i \in DOMAIN lines |->
               [c \in Range(Columns) |->
                  IF c # "quantity" /\ lines[i][c] \in NaTokens
                    THEN NaN ELSE lines[i][c]]]]

(* ------------------------------------------------------------------ *)
(* load_data                                                            *)
(* ------------------------------------------------------------------ *)
\* ['MEGA LDN SAT', 'MEGA LDN SUN', 'AL LDN SAT'] * 50 and the lists below it
SampleRepeat == 50
\* np.random.randint(1, 20, 150): low inclusive, high exclusive
RandLow == 1
RandHigh == 20

SamplePattern ==
  << Row("MEGA LDN SAT", "London", "Saturday", "Mega", "JJK", "Fish", "Bag", 0),
     Row("MEGA LDN SUN", "London", "Sunday", "Mega", "Frieren", "Frieren", "Keyring", 0),
     Row("AL LDN SAT", "London", "Saturday", "AL", "ACNH", "Blathers", "Pin", 0) >>

\* The i-th of the numbers np.random.randint(low, high, n) returns: the generator
\* is unseeded, so the draw is a choice; the model offers one vector per seed.
RandInt(low, high, seed, i) == low + ((7 * seed + 11 * i + seed * i) % (high - low))

SampleData(seed) ==
  [columns |-> Columns,
   rows |-> [i \in 1..(Len(SamplePattern) * SampleRepeat) |->
               [SamplePattern[((i - 1) % Len(SamplePattern)) + 1]
                  EXCEPT !.quantity = RandInt(RandLow, RandHigh, seed, i)]]]

\* load_data without the fallback: a missing file yields the error and an empty
\* table
LoadDataBodyNoSample(file, seed) ==
  IF file.exists
    THEN [df |-> ReadCsv(file.lines), shown |-> {}]
    ELSE [df |-> ReadCsv(<<>>), shown |-> {"error_csv_not_found"}]

\* The body of load_data: what it returns and what it shows.
LoadDataBody(file, seed) ==
  IF file.exists
    THEN [df |-> ReadCsv(file.lines), shown |-> {}]
    ELSE [df |-> SampleData(seed), shown |-> {"error_csv_not_found", "warning_sample_data"}]

\* load_data without @st.cache_data: the body runs on every call
load_data_uncached(entries, file, seed) ==
  [df |-> LoadDataBody(file, seed).df, shown |-> LoadDataBody(file, seed).shown,
   ran |-> TRUE]

\* @st.cache_data: the body runs when the cache holds no entry for load_data (the
\* cache is a sequence of at most one entry); a hit returns a copy of the stored
\* value and replays the elements the body showed.
load_data(entries, file, seed) ==
  IF entries # <<>>
    THEN [df |-> entries[1].df, shown |-> entries[1].shown, ran |-> FALSE]
    ELSE LET r == LoadDataBody(file, seed)
         IN  [df |-> r.df, shown |-> r.shown, ran |-> TRUE]

(* ------------------------------------------------------------------ *)
(* main: the sidebar selectboxes                                        *)
(* ------------------------------------------------------------------ *)
\* df[col].unique()
Unique(rows, col) == {rows[i][col] : i \in DOMAIN rows}

\* sorted(list) raises TypeError when it must compare a str with the float nan
SortRaises(S) == NaN \in S /\ S # {NaN}

\* sorted(list) of distinct values
Sorted(S) == IF S = {NaN} THEN <<NaN>> ELSE SelectSeq(Lexicon, LAMBDA x : x \in S)

\* str(x)
Str(x) == IF x = NaN THEN "nan" ELSE x

\* bool(x): the empty string is false, nan and every other string are true
Truthy(x) == x # ""

\* [x for x in values if x and str(x) != 'nan']
DropMissing(S) == {x \in S : Truthy(x) /\ Str(x) # "nan"}

\* ['All'] + sorted(list(df[col].unique()))               lines 359, 363, 367, 383
PlainChoices(rows, col) == <<All>> \o Sorted(Unique(rows, col))

\* ['All'] + sorted([x for x in df['series_character'].unique() if ...])   line 371
SeriesChoices(rows) == <<All>> \o Sorted(DropMissing(Unique(rows, "series_character")))

\* x == y on cells: nan equals nothing, itself included
PdEq(x, y) == x # NaN /\ y # NaN /\ x = y

\* df[df[col] == value]
Where(rows, col, value) == SelectSeq(rows, LAMBDA r : PdEq(r[col], value))

\* the character options taken from the whole table whatever the series
CharacterChoicesAnySeries(rows, selected_anime) ==
  <<All>> \o Sorted(DropMissing(Unique(rows, "character_variant")))

\* lines 375-379
CharacterChoices(rows, selected_anime) ==
  IF selected_anime # All
    THEN <<All>> \o Sorted(DropMissing(
                      Unique(Where(rows, "series_character", selected_anime),
                             "character_variant")))
    ELSE <<All>> \o Sorted(DropMissing(Unique(rows, "character_variant")))

\* st.sidebar.selectbox(label, options): the widget keeps the user's value while
\* its options are those of the previous run, and starts at options[0] otherwise.
Selectbox(options, previous, value) ==
  IF options = previous /\ value \in Range(options) THEN value ELSE options[1]

\* the widgets in the order main builds them
Widgets ==
  <<"location", "event_type", "day", "series_character", "character_variant",
    "product_type">>

NoChoices == [w \in Range(Widgets) |-> <<>>]
NoSelection == [w \in Range(Widgets) |-> All]

WidgetIndex(w) == CHOOSE i \in DOMAIN Widgets : Widgets[i] = w

\* lines 359, 363, 367, 383: sorted() raises on a column that mixes nan and str;
\* lines 371 and 377 sort what is left after the missing values are dropped
OptionsRaise(rows, w) ==
  /\ w \notin {"series_character", "character_variant"}
  /\ SortRaises(Unique(rows, w))

\* the position in Widgets of the first selectbox whose options cannot be built,
\* Len(Widgets) + 1 when all six are built
FirstRaise(rows) ==
  LET bad == {i \in DOMAIN Widgets : OptionsRaise(rows, Widgets[i])}
  IN  IF bad = {} THEN Len(Widgets) + 1
      ELSE CHOOSE i \in bad : \A j \in bad : i <= j

\* lines 358-384: the options and the value of each selectbox, in order, up to
\* the first that raises.  value: the widgets' values as the user left them;
\* previous: the options each widget had in the previous run.
Sidebar(rows, value, previous) ==
  LET options(w, selected_anime) ==
        CASE w = "series_character" -> SeriesChoices(rows)
          [] w = "character_variant" -> CharacterChoices(rows, selected_anime)
          [] OTHER -> PlainChoices(rows, w)
      result(k, choices) ==
        [raised |-> k <= Len(Widgets),
         choices |-> choices,
         selected |-> [w \in Range(Widgets) |->
                         IF WidgetIndex(w) < k
                           THEN Selectbox(choices[w], previous[w], value[w])
                           ELSE All]]
      build(k, selected_anime) ==
        Only({result(k, c) :
                c \in {[w \in Range(Widgets) |->
                          IF WidgetIndex(w) < k THEN options(w, selected_anime)
                          ELSE <<>>]}})
  IN  Only({build(k, a) :
              k \in {FirstRaise(rows)},
              a \in {Selectbox(SeriesChoices(rows), previous["series_character"],
                               value["series_character"])}})

(* ------------------------------------------------------------------ *)
(* main: the filter chain                                               *)
(* ------------------------------------------------------------------ *)
\* one step of lines 390-407
FilterStep(rows, col, value) == IF value # All THEN Where(rows, col, value) ELSE rows

\* lines 388-407: active_filters, as the widgets whose filter was applied
ActiveFilters(selected) == SelectSeq(Widgets, LAMBDA w : selected[w] # All)

\* the filter chain with every step taken from df instead of filtered_df: only
\* the last active filter counts
ApplyFiltersFromSource(df, selected) ==
  LET active == ActiveFilters(selected)
      last == active[Len(active)]
  IN  [df |-> df,
       filtered_df |->
         [columns |-> df.columns,
          rows |-> IF active = <<>> THEN df.rows
                   ELSE Where(df.rows, last, selected[last])]]

\* the filter chain dropping the rows from df itself (inplace=True)
ApplyFiltersInPlace(df, selected) ==
  LET rows == SelectSeq(df.rows,
                        LAMBDA r : \A w \in Range(Widgets) :
                                     selected[w] # All => PdEq(r[w], selected[w]))
  IN  [df |-> [columns |-> df.columns, rows |-> rows],
       filtered_df |-> [columns |-> df.columns, rows |-> rows]]

\* lines 386-407.  df: the source table as the chain leaves it; filtered_df: the
\* view.  df.copy() and every df[mask] build a new table, so df is left as it was.
ApplyFilters(df, selected) ==
  LET f0 == df.rows
      f1 == FilterStep(f0, "location", selected["location"])
      f2 == FilterStep(f1, "event_type", selected["event_type"])
      f3 == FilterStep(f2, "day", selected["day"])
      f4 == FilterStep(f3, "series_character", selected["series_character"])
      f5 == FilterStep(f4, "character_variant", selected["character_variant"])
      f6 == FilterStep(f5, "product_type", selected["product_type"])
  IN  [df |-> df, filtered_df |-> [columns |-> df.columns, rows |-> f6]]

(* ------------------------------------------------------------------ *)
(* groupby / aggregate                                                  *)
(* ------------------------------------------------------------------ *)
KeyOf(r, cols) == [j \in DOMAIN cols |-> r[cols[j]]]

\* groupby drops the rows with a missing value in a key column (dropna=True)
HasKey(r, cols) == \A j \in DOMAIN cols : r[cols[j]] # NaN

\* the row belongs to the group of key k
InGroup(r, cols, k) == \A j \in DOMAIN cols : r[cols[j]] = k[j]

GroupKeys(rows, cols) ==
  {KeyOf(rows[i], cols) : i \in {n \in DOMAIN rows : HasKey(rows[n], cols)}}

Group(rows, cols, k) == SelectSeq(rows, LAMBDA r : InGroup(r, cols, k))

\* the sum of the integers xs[lo..hi], by halves
RECURSIVE SumInts(_, _, _)
SumInts(xs, lo, hi) ==
  IF lo > hi THEN 0
  ELSE IF lo = hi THEN xs[lo]
  ELSE LET mid == (lo + hi) \div 2
       IN  SumInts(xs, lo, mid) + SumInts(xs, mid + 1, hi)

\* Series.sum()
SumQuantity(rows) == SumInts([i \in DOMAIN rows |-> rows[i].quantity], 1, Len(rows))

\* groupby(cols)['quantity'].count() in place of .sum()
GroupByCount(rows, cols) ==
  [k \in GroupKeys(rows, cols) |-> Len(Group(rows, cols, k))]

\* df.groupby(cols)['quantity'].sum(): group key -> total
GroupBySum(rows, cols) ==
  [k \in GroupKeys(rows, cols) |-> SumQuantity(Group(rows, cols, k))]

\* nunique(): the number of distinct values, missing ones not counted
NUnique(rows, col) == Cardinality(Unique(rows, col) \ {NaN})

LexIndex(x) == CHOOSE i \in DOMAIN Lexicon : Lexicon[i] = x

\* the order groupby leaves its keys in: sorted, column by column
RECURSIVE KeyBefore(_, _)
KeyBefore(a, b) ==
  /\ a # <<>>
  /\ \/ LexIndex(Head(a)) < LexIndex(Head(b))
     \/ Head(a) = Head(b) /\ KeyBefore(Tail(a), Tail(b))

\* nlargest(n, 'quantity') and sort_values('quantity', ascending=False).head(n):
\* the n groups with the largest totals, the earlier key first among equal totals
NLargest(n, totals) ==
  LET top(t) ==
        LET ahead(k) == {j \in DOMAIN t : \/ t[j] > t[k]
                                          \/ t[j] = t[k] /\ KeyBefore(j, k)}
        IN  [k \in {x \in DOMAIN t : Cardinality(ahead(x)) < n} |-> t[k]]
  IN  Only({top(t) : t \in {totals}})

\* nlargest(15, 'quantity')                                      line 233
TopCharacters == 15
\* .head(10)                                                     line 323
TopSeries == 10

(* ------------------------------------------------------------------ *)
(* The metric and chart functions: the data each hands to its chart     *)
(* ------------------------------------------------------------------ *)
\* lines 67-175: the five cards and the per-location, per-product totals
create_overview_metrics(df) ==
  [total_sales |-> SumQuantity(df.rows),
   unique_events |-> NUnique(df.rows, "sheet_name"),
   unique_characters |-> NUnique(df.rows, "series_character"),
   unique_products |-> NUnique(df.rows, "product_type"),
   location_sales |-> GroupBySum(df.rows, <<"location">>),
   char_sales |-> GroupBySum(df.rows, <<"series_character", "character_variant">>),
   product_sales |-> GroupBySum(df.rows, <<"product_type">>)]

\* lines 177-195
create_sales_by_location(df) == GroupBySum(df.rows, <<"location">>)

\* lines 197-210
create_event_comparison(df) == GroupBySum(df.rows, <<"event_type", "location">>)

\* lines 212-227 (the ascending sort orders the bars and changes no value)
create_product_performance(df) == GroupBySum(df.rows, <<"product_type">>)

\* lines 229-244: full_name is added to char_sales, the grouped frame, not to df
create_top_characters(df) ==
  NLargest(TopCharacters,
           GroupBySum(df.rows, <<"series_character", "character_variant">>))

\* lines 300-312
create_daily_performance(df) == GroupBySum(df.rows, <<"day", "event_type">>)

\* lines 251-255: ', '.join(x.unique()) raises TypeError when a group holds a row
\* whose location or product_type is nan
CharacterAnalysisRaises(df) ==
  \E i \in DOMAIN df.rows :
    /\ HasKey(df.rows[i], <<"series_character", "character_variant">>)
    /\ \/ df.rows[i].location = NaN
       \/ df.rows[i].product_type = NaN

\* lines 246-298: the heatmap's totals (pivot(...).fillna(0) shows 0 elsewhere)
create_character_analysis(df) == GroupBySum(df.rows, <<"location", "series_character">>)

\* lines 314-345
create_detailed_analysis(df) ==
  [series_sales |-> NLargest(TopSeries, GroupBySum(df.rows, <<"series_character">>)),
   product_dist |-> GroupBySum(df.rows, <<"product_type", "event_type">>)]

(* ------------------------------------------------------------------ *)
(* The exports                                                          *)
(* ------------------------------------------------------------------ *)
\* a cell as to_csv writes it: a missing value is written as the empty string
CsvCell(r, c) ==
  IF c = "quantity" THEN ToString(r[c]) ELSE IF r[c] = NaN THEN "" ELSE r[c]

\* to_csv() without index=False: the row index is written as a first column
ToCsvWithIndex(df) ==
  <<<<"">> \o df.columns>> \o
    [i \in DOMAIN df.rows |->
       <<ToString(i - 1)>> \o
         [j \in DOMAIN df.columns |-> CsvCell(df.rows[i], df.columns[j])]]

\* filtered_df.to_csv(index=False): the header, then one line per row, each a
\* list of cells (the joining commas are not modelled)
ToCsv(df) ==
  <<df.columns>> \o
    [i \in DOMAIN df.rows |-> [j \in DOMAIN df.columns |-> CsvCell(df.rows[i], df.columns[j])]]

\* num/den in hundredths, rounded half to even as round(2) does
Round2(num, den) ==
  LET q == (100 * num) \div den
      r == (100 * num) % den
  IN  IF 2 * r < den THEN q
      ELSE IF 2 * r > den THEN q + 1
      ELSE IF q % 2 = 0 THEN q ELSE q + 1

SumSquares(rows) ==
  SumInts([i \in DOMAIN rows |-> rows[i].quantity * rows[i].quantity], 1, Len(rows))

MinQuantity(rows) == CHOOSE q \in {rows[i].quantity : i \in DOMAIN rows} :
                       \A i \in DOMAIN rows : q <= rows[i].quantity

MaxQuantity(rows) == CHOOSE q \in {rows[i].quantity : i \in DOMAIN rows} :
                       \A i \in DOMAIN rows : q >= rows[i].quantity

\* 'std' (ddof=1): missing for a group of one row; otherwise the square root of
\* radicand[1] / radicand[2], kept here as that fraction
StdQuantity(rows) ==
  LET n == Len(rows)
  IN  IF n < 2 THEN <<>>
      ELSE <<n * SumSquares(rows) - SumQuantity(rows) * SumQuantity(rows), n * (n - 1)>>

\* all pairs of strings in sorted order
LexPairs ==
  [i \in 1..(Len(Lexicon) * Len(Lexicon)) |->
     <<Lexicon[((i - 1) \div Len(Lexicon)) + 1], Lexicon[((i - 1) % Len(Lexicon)) + 1]>>]

SummaryHeader == <<"location", "event_type", "sum", "mean", "std", "min", "max">>

\* lines 511-515: groupby(['location', 'event_type'])['quantity']
\*   .agg(['sum', 'mean', 'std', 'min', 'max']).round(2).to_csv()
\* mean is in hundredths
SummaryCsv(df) ==
  LET cols == <<"location", "event_type">>
      line(k) ==
        Only({[location |-> k[1], event_type |-> k[2],
               sum |-> SumQuantity(g), mean |-> Round2(SumQuantity(g), Len(g)),
               std |-> StdQuantity(g), min |-> MinQuantity(g), max |-> MaxQuantity(g)] :
                g \in {Group(df.rows, cols, k)}})
      lines(order) == [i \in DOMAIN order |-> line(order[i])]
  IN  [header |-> SummaryHeader,
       lines |-> Only({lines(SelectSeq(LexPairs, LAMBDA k : k \in keys)) :
                         keys \in {GroupKeys(df.rows, cols)}})]

(* ------------------------------------------------------------------ *)
(* main: the empty check and the rendering                              *)
(* ------------------------------------------------------------------ *)
\* what main renders after the empty check, in order (lines 423-521)
RenderOrder ==
  <<"overview_metrics", "sales_by_location", "daily_performance", "event_comparison",
    "product_performance", "top_characters", "character_analysis", "detailed_analysis",
    "insights", "raw_data", "download_filtered_csv", "download_summary">>

RenderIndex(e) == CHOOSE i \in DOMAIN RenderOrder : RenderOrder[i] = e

NoTable == [columns |-> <<>>, rows |-> <<>>]
NoSummary == [header |-> <<>>, lines |-> <<>>]

\* lines 417-521, for the filtered view of a run whose sidebar was built: the
\* empty check, then the metrics, the charts and the exports, up to the first
\* call that raises
Render(view) ==
  LET result(empty, stop) ==
        LET rendered(e) == ~empty /\ RenderIndex(e) < stop
        IN  [outcome |-> IF empty THEN "stopped"
                         ELSE IF stop <= Len(RenderOrder) THEN "raised_in_render"
                         ELSE "completed",
             shown |-> IF empty THEN {"warning_no_data"}
                       ELSE {e \in Range(RenderOrder) : rendered(e)}
                            \cup (IF stop <= Len(RenderOrder) THEN {"exception"} ELSE {}),
             figs |->
               [overview_metrics |->
                  IF rendered("overview_metrics") THEN create_overview_metrics(view) ELSE <<>>,
                sales_by_location |->
                  IF rendered("sales_by_location") THEN create_sales_by_location(view) ELSE <<>>,
                daily_performance |->
                  IF rendered("daily_performance") THEN create_daily_performance(view) ELSE <<>>,
                event_comparison |->
                  IF rendered("event_comparison") THEN create_event_comparison(view) ELSE <<>>,
                product_performance |->
                  IF rendered("product_performance")
                    THEN create_product_performance(view) ELSE <<>>,
                top_characters |->
                  IF rendered("top_characters") THEN create_top_characters(view) ELSE <<>>,
                character_analysis |->
                  IF rendered("character_analysis")
                    THEN create_character_analysis(view) ELSE <<>>,
                detailed_analysis |->
                  IF rendered("detailed_analysis")
                    THEN create_detailed_analysis(view) ELSE <<>>],
             csv |-> IF rendered("download_filtered_csv") THEN ToCsv(view) ELSE <<>>,
             summary_csv |->
               IF rendered("download_summary") THEN SummaryCsv(view) ELSE NoSummary]
  IN  Only({result(e, s) :
              e \in {view.rows = <<>>},
              s \in {IF CharacterAnalysisRaises(view)
                       THEN RenderIndex("character_analysis")
                       ELSE Len(RenderOrder) + 1}})

\* what a run that raised while building the sidebar leaves of lines 386-521
NotRendered ==
  [outcome |-> "raised_in_sidebar", shown |-> {"exception"}, figs |-> <<>>,
   csv |-> <<>>, summary_csv |-> NoSummary]

\* lines 409-415
FilterBanner(selected) ==
  IF ActiveFilters(selected) # <<>> THEN {"active_filters"} ELSE {"showing_all_data"}

(* ------------------------------------------------------------------ *)
(* The process                                                          *)
(* ------------------------------------------------------------------ *)
VARIABLES
  csvFile,      \* the working directory: cleaned_convention_sales_data.csv or none
  rng,          \* numpy's global generator
  cache,        \* st.cache_data's entries for load_data
  loads,        \* how often the body of load_data has run (saturates at MaxLoads)
  df,           \* the table load_data returned to the last run, as that run left it
  choices,      \* the options of each selectbox in the last run
  selected,     \* the value of each selectbox in the last run
  filtered_df,  \* the filtered view of the last run
  outcome,      \* how the last run ended
  shown,        \* the elements the last run rendered
  figs,         \* the data behind the charts of the last run
  csv,          \* the data of the "Download Filtered Data as CSV" button
  summary_csv   \* the data of the "Download Summary Statistics" button

vars ==
  <<csvFile, rng, cache, loads, df, choices, selected, filtered_df, outcome, shown,
    figs, csv, summary_csv>>

\* The process has started and no browser has connected yet.  The generator's
\* state matters only when the sample data is drawn.
Init ==
  /\ csvFile \in Files
  /\ rng \in (IF csvFile.exists THEN {0} ELSE 0..MaxSeed)
  /\ cache = <<>>
  /\ loads = 0
  /\ df = NoTable
  /\ choices = NoChoices
  /\ selected = NoSelection
  /\ filtered_df = NoTable
  /\ outcome = "not_run"
  /\ shown = {}
  /\ figs = <<>>
  /\ csv = <<>>
  /\ summary_csv = NoSummary

\* main (lines 347-521): one execution of the script, with the widgets at `value`
\* and `previous` the options each widget had in the run before.  Each stage is
\* evaluated once and handed to the next.
main(value, previous) ==
  \E L \in {load_data(cache, csvFile, rng)} :
  \E S \in {Sidebar(L.df.rows, value, previous)} :
  \E F \in {ApplyFilters(L.df, S.selected)} :
  \E R \in {IF S.raised THEN NotRendered ELSE Render(F.filtered_df)} :
      /\ cache' = IF L.ran THEN <<[df |-> L.df, shown |-> L.shown]>> ELSE cache
      /\ rng' = IF L.ran /\ ~csvFile.exists THEN (rng + 1) % (MaxSeed + 1) ELSE rng
      /\ loads' = IF L.ran /\ loads < MaxLoads THEN loads + 1 ELSE loads
      /\ df' = IF S.raised THEN L.df ELSE F.df
      /\ choices' = S.choices
      /\ selected' = S.selected
      /\ filtered_df' = IF S.raised THEN NoTable ELSE F.filtered_df
      /\ outcome' = R.outcome
      /\ shown' = {"header"} \cup L.shown
                    \cup (IF S.raised THEN {} ELSE FilterBanner(S.selected))
                    \cup R.shown
      /\ figs' = R.figs
      /\ csv' = R.csv
      /\ summary_csv' = R.summary_csv
      /\ UNCHANGED csvFile

\* a browser opens the page: the first run of a session, every widget at its default
Open ==
  /\ outcome = "not_run"
  /\ main(NoSelection, NoChoices)

\* the user picks another option of selectbox w
Select(w) ==
  /\ outcome # "not_run"
  /\ \E v \in Range(choices[w]) \ {selected[w]} :
       main([selected EXCEPT ![w] = v], choices)

SelectLocation == Select("location")
SelectEvent == Select("event_type")
SelectDay == Select("day")
SelectAnime == Select("series_character")
SelectCharacter == Select("character_variant")
SelectProduct == Select("product_type")

\* the user reruns the script without touching a widget
Rerun ==
  /\ outcome # "not_run"
  /\ main(selected, choices)

\* the browser reloads the page: a new session of the same process
Reload ==
  /\ outcome # "not_run"
  /\ main(NoSelection, NoChoices)

Next ==
  \/ Open
  \/ SelectLocation
  \/ SelectEvent
  \/ SelectDay
  \/ SelectAnime
  \/ SelectCharacter
  \/ SelectProduct
  \/ Rerun
  \/ Reload

Spec == Init /\ [][Next]_vars

(* ------------------------------------------------------------------ *)
(* Properties                                                           *)
(* ------------------------------------------------------------------ *)
\* the last run got as far as the filter chain
ViewComputed == outcome \in {"stopped", "raised_in_render", "completed"}

\* Row r equals the selection in every dimension whose selection is not 'All'.
\* A missing value equals nothing, as == on cells has it.
Matches(r, sel) ==
  \A w \in Range(Widgets) : sel[w] # All => (r[w] # NaN /\ r[w] = sel[w])

\* the rows of `rows` at the indices I add up to: each quantity times its count
RECURSIVE WeightedSum(_, _, _)
WeightedSum(rows, I, Q) ==
  IF Q = {} THEN 0
  ELSE LET q == CHOOSE x \in Q : TRUE
       IN  q * Cardinality({i \in I : rows[i].quantity = q})
             + WeightedSum(rows, I, Q \ {q})

TotalAt(rows, I) == WeightedSum(rows, I, {rows[i].quantity : i \in I})

\* the indices of the rows that have key k in the columns cols
RowsWithKey(rows, cols, k) ==
  {i \in DOMAIN rows : \A j \in DOMAIN cols : rows[i][cols[j]] = k[j]}

\* the keys of non-missing values that occur in the columns cols
OccurringKeys(rows, cols) ==
  {k \in {[j \in DOMAIN cols |-> rows[i][cols[j]]] : i \in DOMAIN rows} :
     \A j \in DOMAIN cols : k[j] # NaN}

\* C1: whenever a run has computed the filtered view, the view is exactly the
\* rows of the loaded table, in their order, that equal the current selection in
\* every dimension whose selection is not 'All': a function of the table and the
\* current selections alone, whatever was selected before.
C1_ViewIsCurrentSelection ==
  ViewComputed =>
    /\ filtered_df.columns = df.columns
    /\ filtered_df.rows = SelectSeq(df.rows, LAMBDA r : Matches(r, selected))

\* C1 witness: a second and a third selection narrowed the view to some but not
\* all of the rows
C1_Witness ==
  /\ ViewComputed
  /\ selected["location"] # All
  /\ selected["day"] # All
  /\ filtered_df.rows # <<>>
  /\ Len(filtered_df.rows) < Len(df.rows)

\* C2: a run whose filtered view is empty shows the 'No data matches' warning and
\* renders no metric, chart, raw-data table or download button; a run whose view
\* has a row does not show the warning and renders both download buttons.
C2_EmptyHaltsElseExports ==
  ViewComputed =>
    IF filtered_df.rows = <<>>
      THEN /\ "warning_no_data" \in shown
           /\ shown \cap Range(RenderOrder) = {}
      ELSE /\ "warning_no_data" \notin shown
           /\ {"download_filtered_csv", "download_summary"} \subseteq shown

\* C3: with the file missing, load_data returns the sample table (150 rows, the
\* eight columns) and the warning is shown; with the file present it returns the
\* file's lines, cell by cell (an empty cell as a missing value), and no warning
\* is shown.
C3_MissingFileGivesSample ==
  outcome # "not_run" =>
    IF csvFile.exists
      THEN /\ df.columns = Columns
           /\ Len(df.rows) = Len(csvFile.lines)
           /\ \A i \in DOMAIN df.rows :
                /\ df.rows[i].quantity = csvFile.lines[i].quantity
                /\ \A c \in Range(Columns) \ {"quantity"} :
                     IF csvFile.lines[i][c] = ""
                       THEN df.rows[i][c] = NaN
                       ELSE df.rows[i][c] = csvFile.lines[i][c]
           /\ "warning_sample_data" \notin shown
      ELSE /\ Len(df.rows) = 150
           /\ Len(df.columns) = 8
           /\ Range(df.columns) =
                {"sheet_name", "location", "day", "event_type", "series_character",
                 "character_variant", "product_type", "quantity"}
           /\ \A i \in DOMAIN df.rows : DOMAIN df.rows[i] = Range(df.columns)
           /\ "warning_sample_data" \in shown

\* C3 witness: the file is missing and the dashboard rendered from the sample
C3_Witness ==
  /\ ~csvFile.exists
  /\ outcome = "completed"
  /\ "warning_sample_data" \in shown

\* C4: no selectbox offers a missing value
C4_NoMissingChoice ==
  \A w \in Range(Widgets) : NaN \notin Range(choices[w])

\* the tables load_data can return for the file: what read_csv reads, or one of
\* the sample tables
Loadable ==
  IF csvFile.exists THEN {ReadCsv(csvFile.lines)}
  ELSE {SampleData(s) : s \in 0..MaxSeed}

\* C5: after every run the table load_data returned is as it was loaded (the
\* stored table, rows and columns), whatever was filtered, rendered or exported,
\* and the view is made of rows of that table under its columns.
C5_SourceNeverModified ==
  outcome # "not_run" =>
    /\ cache # <<>>
    /\ df = cache[1].df
    /\ df \in Loadable
    /\ filtered_df.columns \in {df.columns, <<>>}
    /\ Range(filtered_df.rows) \subseteq Range(df.rows)

\* C5 witness: a filter was applied and the run went through the charts and
\* both exports
C5_Witness ==
  /\ outcome = "completed"
  /\ selected["event_type"] # All
  /\ Len(filtered_df.rows) < Len(df.rows)
  /\ {"top_characters", "download_filtered_csv", "download_summary"} \subseteq shown

\* C6: every quantity of the loaded table and of the filtered view is >= 0
C6_QuantityNonNegative ==
  /\ \A i \in DOMAIN df.rows : df.rows[i].quantity >= 0
  /\ \A i \in DOMAIN filtered_df.rows : filtered_df.rows[i].quantity >= 0

\* the chart's totals are, key by key, the sums of quantity over the rows of the
\* view with that key
TotalsOfView(totals, cols) ==
  \A k \in DOMAIN totals :
    /\ RowsWithKey(filtered_df.rows, cols, k) # {}
    /\ totals[k] = TotalAt(filtered_df.rows, RowsWithKey(filtered_df.rows, cols, k))

\* the chart reports every key that occurs in the view
EveryKey(totals, cols) == DOMAIN totals = OccurringKeys(filtered_df.rows, cols)

\* C7: for every chart and metric a run rendered, the value reported for a group
\* key is the sum of quantity over exactly the rows of the filtered view that
\* have that key; the charts that do not cut to a top list report every key that
\* occurs.
C7_GroupedSumsMatchRows ==
  /\ "overview_metrics" \in shown =>
       /\ figs.overview_metrics.total_sales
            = TotalAt(filtered_df.rows, DOMAIN filtered_df.rows)
       /\ TotalsOfView(figs.overview_metrics.location_sales, <<"location">>)
       /\ TotalsOfView(figs.overview_metrics.product_sales, <<"product_type">>)
       /\ TotalsOfView(figs.overview_metrics.char_sales,
                       <<"series_character", "character_variant">>)
  /\ "sales_by_location" \in shown =>
       /\ TotalsOfView(figs.sales_by_location, <<"location">>)
       /\ EveryKey(figs.sales_by_location, <<"location">>)
  /\ "daily_performance" \in shown =>
       /\ TotalsOfView(figs.daily_performance, <<"day", "event_type">>)
       /\ EveryKey(figs.daily_performance, <<"day", "event_type">>)
  /\ "event_comparison" \in shown =>
       /\ TotalsOfView(figs.event_comparison, <<"event_type", "location">>)
       /\ EveryKey(figs.event_comparison, <<"event_type", "location">>)
  /\ "product_performance" \in shown =>
       /\ TotalsOfView(figs.product_performance, <<"product_type">>)
       /\ EveryKey(figs.product_performance, <<"product_type">>)
  /\ "top_characters" \in shown =>
       TotalsOfView(figs.top_characters, <<"series_character", "character_variant">>)
  /\ "character_analysis" \in shown =>
       TotalsOfView(figs.character_analysis, <<"location", "series_character">>)
  /\ "detailed_analysis" \in shown =>
       /\ TotalsOfView(figs.detailed_analysis.series_sales, <<"series_character">>)
       /\ TotalsOfView(figs.detailed_analysis.product_dist,
                       <<"product_type", "event_type">>)

\* C7 witness: a filtered view whose product chart has two bars, one of them the
\* total of several rows
C7_Witness ==
  /\ outcome = "completed"
  /\ selected["event_type"] # All
  /\ Cardinality(DOMAIN figs.product_performance) = 2
  /\ \E k \in DOMAIN figs.event_comparison :
       Cardinality(RowsWithKey(filtered_df.rows, <<"event_type", "location">>, k)) > 1

\* the sum of the squares of the quantities at the indices I
SquaresAt(rows, I) ==
  LET sq == [i \in DOMAIN rows |-> [quantity |-> rows[i].quantity * rows[i].quantity]]
  IN  TotalAt(sq, I)

\* C8: the filtered-data download holds the header and then exactly the rows of
\* the current filtered view (hence only rows that match the current
\* selections), in order; the summary download has one line per pair of
\* (non-missing) location and event_type occurring in that view, with the sum,
\* mean (to two decimals), std (missing for a single row), min and max of the
\* quantities of the view's rows with that pair.
C8_DownloadsFromCurrentView ==
  /\ "download_filtered_csv" \in shown =>
       /\ Len(csv) = Len(filtered_df.rows) + 1
       /\ csv[1] = Columns
       /\ \A i \in DOMAIN filtered_df.rows :
            /\ Matches(filtered_df.rows[i], selected)
            /\ Len(csv[i + 1]) = Len(Columns)
            /\ \A j \in DOMAIN Columns :
                 IF Columns[j] = "quantity"
                   THEN csv[i + 1][j] = ToString(filtered_df.rows[i].quantity)
                   ELSE IF filtered_df.rows[i][Columns[j]] = NaN
                     THEN csv[i + 1][j] = ""
                     ELSE csv[i + 1][j] = filtered_df.rows[i][Columns[j]]
  /\ "download_summary" \in shown =>
       LET cols == <<"location", "event_type">>
           lines == summary_csv.lines
           at(k) == RowsWithKey(filtered_df.rows, cols, k)
           qs(k) == {filtered_df.rows[i].quantity : i \in at(k)}
       IN  /\ summary_csv.header = <<"location", "event_type", "sum", "mean", "std", "min", "max">>
           /\ {<<lines[n].location, lines[n].event_type>> : n \in DOMAIN lines}
                = OccurringKeys(filtered_df.rows, cols)
           /\ Len(lines) = Cardinality(OccurringKeys(filtered_df.rows, cols))
           /\ \A n \in DOMAIN lines :
                LET k == <<lines[n].location, lines[n].event_type>>
                    count == Cardinality(at(k))
                    total == TotalAt(filtered_df.rows, at(k))
                IN  /\ lines[n].sum = total
                    /\ 2 * (100 * total - lines[n].mean * count) <= count
                    /\ 2 * (lines[n].mean * count - 100 * total) <= count
                    /\ lines[n].min \in qs(k) /\ \A q \in qs(k) : lines[n].min <= q
                    /\ lines[n].max \in qs(k) /\ \A q \in qs(k) : lines[n].max >= q
                    /\ IF count = 1 THEN lines[n].std = <<>>
                       ELSE lines[n].std =
                              <<count * SquaresAt(filtered_df.rows, at(k)) - total * total,
                                count * (count - 1)>>

\* C8 witness: after an earlier selection was replaced by another, both
\* downloads are offered for a view of part of the table, one summary line for
\* several rows
C8_Witness ==
  /\ {"download_filtered_csv", "download_summary"} \subseteq shown
  /\ selected["day"] # All
  /\ Len(filtered_df.rows) < Len(df.rows)
  /\ \E n \in DOMAIN summary_csv.lines : summary_csv.lines[n].std # <<>>

\* C9: the body of load_data runs at most once in the process, and once the
\* table is loaded every later run, whatever it selects, gets the identical
\* table, the randomly drawn sample included.
C9_LoadedOncePerProcess ==
  /\ [](loads <= 1)
  /\ [][outcome # "not_run" => (df' = df /\ cache' = cache /\ loads' = loads)]_vars

\* C9 witness: the sample data was drawn, and selections were made after it
C9_Witness ==
  /\ ~csvFile.exists
  /\ loads = 1
  /\ selected["series_character"] # All
  /\ selected["product_type"] # All

\* C10: the character options are 'All' and then exactly the non-missing
\* character_variant values of the loaded rows of the selected series, or of
\* all loaded rows when the series is 'All'; every other selectbox offers 'All'
\* and then the values of its column in the whole loaded table, whatever is
\* selected elsewhere.
C10_CharacterChoicesFollowSeries ==
  \A w \in Range(Widgets) :
    choices[w] # <<>> =>
      /\ choices[w][1] = All
      /\ Len(choices[w]) = 1 + Cardinality(Range(Tail(choices[w])))
      /\ IF w = "character_variant"
           THEN Range(Tail(choices[w])) =
                  {df.rows[i].character_variant :
                     i \in {n \in DOMAIN df.rows :
                              \/ selected["series_character"] = All
                              \/ df.rows[n].series_character = selected["series_character"]}}
                    \ {NaN}
           ELSE Range(Tail(choices[w])) \ {NaN} = Unique(df.rows, w) \ {NaN}

\* C10 witness: a series is selected and the character options are fewer than
\* the characters of the whole table
C10_Witness ==
  /\ selected["series_character"] # All
  /\ choices["character_variant"] # <<>>
  /\ Cardinality(Range(choices["character_variant"]))
       < 1 + Cardinality(Unique(df.rows, "character_variant") \ {NaN})

\* the view of the loaded table when the selections are exactly sel
ViewOf(sel) == ApplyFilters(df, sel).filtered_df.rows

\* C11: once the sidebar is built, every option other than 'All' of every
\* selectbox, selected while the other five are 'All', gives a non-empty view;
\* every offered series together with every character offered for that series
\* gives a non-empty view; and the run halts on the empty-view warning only
\* with two or more selections other than 'All' or with an empty loaded table.
C11_EveryChoiceSatisfiable ==
  outcome \notin {"not_run", "raised_in_sidebar"} =>
    /\ \A w \in Range(Widgets) \ {"character_variant"} :
         \A c \in Range(choices[w]) \ {All} :
           ViewOf([NoSelection EXCEPT ![w] = c]) # <<>>
    /\ \A s \in Range(choices["series_character"]) :
         \A c \in Range(CharacterChoices(df.rows, s)) \ {All} :
           ViewOf([NoSelection EXCEPT !["series_character"] = s,
                                      !["character_variant"] = c]) # <<>>
    /\ outcome = "stopped" =>
         \/ Len(ActiveFilters(selected)) >= 2
         \/ df.rows = <<>>

====
